---- MODULE Spec2Model ----
(***************************************************************************)
(* Model of c10::ClassType (torch/csrc/jit/script/class_type.cpp): the     *)
(* attribute / constant slot tables, the method table, refine() and the    *)
(* structural subtype check against an InterfaceType.                      *)
(***************************************************************************)
EXTENDS Integers, Sequences, FiniteSets, TLC

\* ------------------------------------------------------------------ bounds
MaxAttrs == 2
MaxConsts == 2
MaxMethods == 2
MaxIfaceMethods == 2

\* ------------------------------------------------------------ value sets
Names == {"a", "b", "c"}
RefineNames == {"a", "b"}
Types == {"Tensor", "OptTensor", "None", "Int", "Any"}
Values == {"v1", "v2"}
MethodNames == {"f", "g"}
RetTypes == {"Tensor", "OptTensor"}
Functions == [name : MethodNames, ret : RetTypes]
Schemas == [name : MethodNames, ret : RetTypes]
RefineTypes == {"Tensor", "OptTensor", "Int", "Any"}
RefineFunctions == [name : MethodNames, ret : {"Tensor"}]

VARIABLES
    isModule,        \* parameterSlots_ != nullptr, fixed by the constructor
    attributeNames,  \* attributeNames_
    attributeTypes,  \* attributeTypes_
    parameterSlots,  \* *parameterSlots_ (<<>> and unused when not a module)
    constantNames,   \* constantNames_
    constantValues,  \* constantValues_
    methods,         \* methods_
    last,            \* the last call: its arguments and what it returned
    slotLog          \* the slots addAttribute has returned (kept by SpecSlots)

vars == <<isModule, attributeNames, attributeTypes, parameterSlots,
          constantNames, constantValues, methods, last, slotLog>>

\* ------------------------------------------------------------- helpers
Range(s) == {s[i] : i \in DOMAIN s}

\* std::vector::erase(begin() + slot), slot counted from 0
EraseAt(s, slot) == [i \in 1..(Len(s) - 1) |-> IF i <= slot THEN s[i] ELSE s[i + 1]]

BoolSeqsUpTo(n) == UNION {[1..k -> BOOLEAN] : k \in 0..n}

\* erase() with an iterator at or past end() is undefined: the vector may be
\* left alone, lose an element or hold other bits.
EraseOutcomes(s, slot) ==
    IF slot < Len(s) THEN {EraseAt(s, slot)} ELSE BoolSeqsUpTo(Len(s))

\* Type::isSubtypeOf on the attribute types used here
TypeSubtype(a, b) ==
    \/ a = b
    \/ b = "Any"
    \/ b = "OptTensor" /\ a \in {"Tensor", "None"}

\* FunctionSchema::isSubtypeOf(rhs, is_method = true): covariant return
SchemaSubtype(s, r) == TypeSubtype(s.ret, r.ret)

\* ------------------------------------------------------- the object
NewClass(is_module) ==
    [isModule |-> is_module,
     attributeNames |-> <<>>, attributeTypes |-> <<>>, parameterSlots |-> <<>>,
     constantNames |-> <<>>, constantValues |-> <<>>,
     methods |-> <<>>]

Self ==
    [isModule |-> isModule,
     attributeNames |-> attributeNames, attributeTypes |-> attributeTypes,
     parameterSlots |-> parameterSlots,
     constantNames |-> constantNames, constantValues |-> constantValues,
     methods |-> methods]

Become(c) ==
    /\ isModule' = c.isModule
    /\ attributeNames' = c.attributeNames
    /\ attributeTypes' = c.attributeTypes
    /\ parameterSlots' = c.parameterSlots
    /\ constantNames' = c.constantNames
    /\ constantValues' = c.constantValues
    /\ methods' = c.methods

NoIface == [is_module |-> FALSE, methods |-> <<>>]

NoCall ==
    [op |-> "none", res |-> "ok", slot |-> -1,
     name |-> "-", type |-> "-", is_parameter |-> FALSE, value |-> "-",
     method |-> [name |-> "-", ret |-> "-"],
     kind |-> "-", iface |-> NoIface, sink |-> FALSE,
     ret |-> FALSE, why_not |-> <<>>,
     refined_slots |-> <<>>, refined |-> NewClass(FALSE)]

\* ---------------------------------------------------- ClassType::checkNotExist
\* checkNotExist without the loop over the attributes
checkNotExist_noAttributeLoop(c, name) ==
    IF \E i \in DOMAIN c.constantNames : c.constantNames[i] = name
    THEN "NameConflict"
    ELSE "ok"

\* checkNotExist without the loop over the constants
checkNotExist_noConstantLoop(c, name) ==
    IF \E i \in DOMAIN c.attributeNames : c.attributeNames[i] = name
    THEN "NameConflict"
    ELSE "ok"

checkNotExist(c, name) ==
    IF \E i \in DOMAIN c.constantNames : c.constantNames[i] = name
    THEN "NameConflict"
    ELSE IF \E i \in DOMAIN c.attributeNames : c.attributeNames[i] = name
    THEN "NameConflict"
    ELSE "ok"

\* checkNoAny(*this, what, name, type)
checkNoAny(type) == IF type = "Any" THEN "TypeRejected" ELSE "ok"

\* the TORCH_CHECK on the kind of a parameter's type
IsParameterType(type) == type \in {"Tensor", "OptTensor", "None"}

\* ---------------------------------------------------- ClassType::addAttribute
\* addAttribute reading the slot after the push_back
addAttribute_slotAfterPush(c, name, type, is_parameter) ==
    IF checkNotExist(c, name) # "ok"
    THEN [cls |-> c, res |-> "NameConflict", slot |-> -1]
    ELSE IF checkNoAny(type) # "ok"
    THEN [cls |-> c, res |-> "TypeRejected", slot |-> -1]
    ELSE
      LET c1 == [c EXCEPT !.attributeNames = Append(@, name),
                          !.attributeTypes = Append(@, type)]
          slot == Len(c1.attributeNames)
      IN  IF is_parameter /\ ~c.isModule
          THEN [cls |-> c1, res |-> "InvariantViolation", slot |-> -1]
          ELSE IF is_parameter /\ ~IsParameterType(type)
          THEN [cls |-> c1, res |-> "TypeRejected", slot |-> -1]
          ELSE [cls |-> IF c.isModule
                        THEN [c1 EXCEPT !.parameterSlots = Append(@, is_parameter)]
                        ELSE c1,
                res |-> "ok", slot |-> slot]

\* addAttribute returning the slot of the attribute before the new one
addAttribute_slotOfPrevious(c, name, type, is_parameter) ==
    IF checkNotExist(c, name) # "ok"
    THEN [cls |-> c, res |-> "NameConflict", slot |-> -1]
    ELSE IF checkNoAny(type) # "ok"
    THEN [cls |-> c, res |-> "TypeRejected", slot |-> -1]
    ELSE
      LET slot == IF Len(c.attributeNames) > 0 THEN Len(c.attributeNames) - 1 ELSE 0
          c1 == [c EXCEPT !.attributeNames = Append(@, name),
                          !.attributeTypes = Append(@, type)]
      IN  IF is_parameter /\ ~c.isModule
          THEN [cls |-> c1, res |-> "InvariantViolation", slot |-> -1]
          ELSE IF is_parameter /\ ~IsParameterType(type)
          THEN [cls |-> c1, res |-> "TypeRejected", slot |-> -1]
          ELSE [cls |-> IF c.isModule
                        THEN [c1 EXCEPT !.parameterSlots = Append(@, is_parameter)]
                        ELSE c1,
                res |-> "ok", slot |-> slot]

addAttribute(c, name, type, is_parameter) ==
    IF checkNotExist(c, name) # "ok"
    THEN [cls |-> c, res |-> "NameConflict", slot |-> -1]
    ELSE IF checkNoAny(type) # "ok"
    THEN [cls |-> c, res |-> "TypeRejected", slot |-> -1]
    ELSE
      LET slot == Len(c.attributeNames)
          c1 == [c EXCEPT !.attributeNames = Append(@, name),
                          !.attributeTypes = Append(@, type)]
      IN  IF is_parameter /\ ~c.isModule
          THEN [cls |-> c1, res |-> "InvariantViolation", slot |-> -1]
          ELSE IF is_parameter /\ ~IsParameterType(type)
          THEN [cls |-> c1, res |-> "TypeRejected", slot |-> -1]
          ELSE [cls |-> IF c.isModule
                        THEN [c1 EXCEPT !.parameterSlots = Append(@, is_parameter)]
                        ELSE c1,
                res |-> "ok", slot |-> slot]

AddAttribute(name, type, is_parameter) ==
    LET r == addAttribute(Self, name, type, is_parameter)
    IN  /\ Len(r.cls.attributeNames) <= MaxAttrs
        /\ Become(r.cls)
        /\ last' = [NoCall EXCEPT !.op = "addAttribute", !.name = name,
                                  !.type = type, !.is_parameter = is_parameter,
                                  !.res = r.res, !.slot = r.slot]

\* the slot addAttribute returned for each attribute still present (-1 when
\* none was returned) and the slots it returned for attributes removed since
NoSlots == [issued |-> [n \in Names |-> -1], retired |-> {}]

LogAddAttribute ==
    slotLog' = IF last'.res = "ok"
               THEN [slotLog EXCEPT !.issued[last'.name] = last'.slot]
               ELSE slotLog

LogRemoveAttribute ==
    slotLog' = IF last'.res = "ok"
               THEN [slotLog EXCEPT
                       !.issued[last'.name] = -1,
                       !.retired = @ \cup ({slotLog.issued[last'.name]} \ {-1})]
               ELSE slotLog

\* ---------------------------------------------------- ClassType::getAttributeSlot
\* position of the first attribute called name, -1 when there is none
findAttributeSlot(c, name) ==
    IF \E i \in DOMAIN c.attributeNames : c.attributeNames[i] = name
    THEN (CHOOSE i \in DOMAIN c.attributeNames :
            /\ c.attributeNames[i] = name
            /\ \A j \in 1..(i - 1) : c.attributeNames[j] # name) - 1
    ELSE -1

\* ---------------------------------------------------- ClassType::unsafeRemoveAttribute
RemoveAttribute(name) ==
    LET slot == findAttributeSlot(Self, name)
    IN  /\ UNCHANGED <<isModule, constantNames, constantValues, methods>>
        /\ IF slot < 0
           THEN /\ UNCHANGED <<attributeNames, attributeTypes, parameterSlots>>
                /\ last' = [NoCall EXCEPT !.op = "removeAttribute", !.name = name,
                                          !.res = "NotFound"]
           ELSE /\ attributeNames' = EraseAt(attributeNames, slot)
                /\ attributeTypes' = EraseAt(attributeTypes, slot)
                /\ IF isModule
                   THEN parameterSlots' \in EraseOutcomes(parameterSlots, slot)
                   ELSE UNCHANGED parameterSlots
                /\ last' = [NoCall EXCEPT !.op = "removeAttribute", !.name = name,
                                          !.res = "ok", !.slot = slot]

\* ---------------------------------------------------- ClassType::addConstant
addConstant(c, name, value) ==
    IF checkNotExist(c, name) # "ok"
    THEN [cls |-> c, res |-> "NameConflict", slot |-> -1]
    ELSE [cls |-> [c EXCEPT !.constantNames = Append(@, name),
                            !.constantValues = Append(@, value)],
          res |-> "ok", slot |-> Len(c.constantNames)]

AddConstant(name, value) ==
    LET r == addConstant(Self, name, value)
    IN  /\ Len(r.cls.constantNames) <= MaxConsts
        /\ Become(r.cls)
        /\ last' = [NoCall EXCEPT !.op = "addConstant", !.name = name,
                                  !.value = value, !.res = r.res, !.slot = r.slot]

\* ---------------------------------------------------- ClassType::getConstantSlot
findConstantSlot(c, name) ==
    IF \E i \in DOMAIN c.constantNames : c.constantNames[i] = name
    THEN (CHOOSE i \in DOMAIN c.constantNames :
            /\ c.constantNames[i] = name
            /\ \A j \in 1..(i - 1) : c.constantNames[j] # name) - 1
    ELSE -1

\* ---------------------------------------------------- ClassType::findConstant
\* findConstant returning the first value whatever the position found
findConstant_firstValue(c, name) ==
    IF Len(c.constantNames) # Len(c.constantValues)
    THEN [res |-> "InvariantViolation", has_value |-> FALSE, value |-> "-"]
    ELSE
      LET pos == IF \E i \in DOMAIN c.constantNames : c.constantNames[i] = name
                 THEN (CHOOSE i \in DOMAIN c.constantNames :
                         /\ c.constantNames[i] = name
                         /\ \A j \in 1..(i - 1) : c.constantNames[j] # name) - 1
                 ELSE Len(c.constantNames)
      IN  IF pos >= Len(c.constantNames)
          THEN [res |-> "ok", has_value |-> FALSE, value |-> "-"]
          ELSE [res |-> "ok", has_value |-> TRUE, value |-> c.constantValues[1]]

findConstant(c, name) ==
    IF Len(c.constantNames) # Len(c.constantValues)
    THEN [res |-> "InvariantViolation", has_value |-> FALSE, value |-> "-"]
    ELSE
      LET pos == IF \E i \in DOMAIN c.constantNames : c.constantNames[i] = name
                 THEN (CHOOSE i \in DOMAIN c.constantNames :
                         /\ c.constantNames[i] = name
                         /\ \A j \in 1..(i - 1) : c.constantNames[j] # name) - 1
                 ELSE Len(c.constantNames)
      IN  IF pos >= Len(c.constantNames)
          THEN [res |-> "ok", has_value |-> FALSE, value |-> "-"]
          ELSE [res |-> "ok", has_value |-> TRUE, value |-> c.constantValues[pos + 1]]

FindConstant(name) ==
    LET v == findConstant(Self, name)
    IN  /\ last' = [NoCall EXCEPT !.op = "findConstant", !.name = name,
                                  !.res = v.res, !.ret = v.has_value,
                                  !.value = v.value]
        /\ UNCHANGED <<isModule, attributeNames, attributeTypes, parameterSlots,
                       constantNames, constantValues, methods>>

\* ---------------------------------------------------- ClassType::getConstant(name)
getConstant(c, name) ==
    LET v == findConstant(c, name)
    IN  IF v.res # "ok"
        THEN [res |-> v.res, value |-> "-"]
        ELSE IF ~v.has_value
        THEN [res |-> "NotFound", value |-> "-"]
        ELSE [res |-> "ok", value |-> v.value]

GetConstant(name) ==
    LET v == getConstant(Self, name)
    IN  /\ last' = [NoCall EXCEPT !.op = "getConstant", !.name = name,
                                  !.res = v.res, !.value = v.value]
        /\ UNCHANGED <<isModule, attributeNames, attributeTypes, parameterSlots,
                       constantNames, constantValues, methods>>

\* ---------------------------------------------------- ClassType::getConstant(slot)
getConstant_slot(c, slot) ==
    IF Len(c.constantNames) # Len(c.constantValues)
    THEN [res |-> "InvariantViolation", value |-> "-"]
    ELSE IF ~(slot < Len(c.constantValues))
    THEN [res |-> "IndexOutOfRange", value |-> "-"]
    ELSE [res |-> "ok", value |-> c.constantValues[slot + 1]]

GetConstant_slot(slot) ==
    LET v == getConstant_slot(Self, slot)
    IN  /\ last' = [NoCall EXCEPT !.op = "getConstant(slot)", !.slot = slot,
                                  !.res = v.res, !.value = v.value]
        /\ UNCHANGED <<isModule, attributeNames, attributeTypes, parameterSlots,
                       constantNames, constantValues, methods>>

\* ---------------------------------------------------- ClassType::unsafeRemoveConstant
RemoveConstant(name) ==
    LET slot == findConstantSlot(Self, name)
    IN  /\ UNCHANGED <<isModule, attributeNames, attributeTypes, parameterSlots,
                       methods>>
        /\ IF slot < 0
           THEN /\ UNCHANGED <<constantNames, constantValues>>
                /\ last' = [NoCall EXCEPT !.op = "removeConstant", !.name = name,
                                          !.res = "NotFound"]
           ELSE /\ constantNames' = EraseAt(constantNames, slot)
                /\ constantValues' = EraseAt(constantValues, slot)
                /\ last' = [NoCall EXCEPT !.op = "removeConstant", !.name = name,
                                          !.res = "ok", !.slot = slot]

\* ---------------------------------------------------- ClassType::getMethod
NoMethod == [name |-> "-", ret |-> "-"]

\* getMethod whose scan starts one entry too late
getMethod_skipFirst(c, name) ==
    IF \E i \in DOMAIN c.methods : i > 1 /\ c.methods[i].name = name
    THEN c.methods[CHOOSE i \in DOMAIN c.methods :
                     /\ i > 1
                     /\ c.methods[i].name = name
                     /\ \A j \in 2..(i - 1) : c.methods[j].name # name]
    ELSE NoMethod

getMethod(c, name) ==
    IF \E i \in DOMAIN c.methods : c.methods[i].name = name
    THEN c.methods[CHOOSE i \in DOMAIN c.methods :
                     /\ c.methods[i].name = name
                     /\ \A j \in 1..(i - 1) : c.methods[j].name # name]
    ELSE NoMethod

\* ---------------------------------------------------- ClassType::addMethod
addMethod(c, method) ==
    IF getMethod(c, method.name) # NoMethod
    THEN [cls |-> c, res |-> "NameConflict"]
    ELSE [cls |-> [c EXCEPT !.methods = Append(@, method)], res |-> "ok"]

AddMethod(method) ==
    LET r == addMethod(Self, method)
    IN  /\ Len(r.cls.methods) <= MaxMethods
        /\ Become(r.cls)
        /\ last' = [NoCall EXCEPT !.op = "addMethod", !.method = method,
                                  !.res = r.res]

\* ---------------------------------------------------- ClassType::isSubtypeOfExt
\* the loop without the schema comparison
RECURSIVE checkIfaceMethods_nameOnly(_, _, _, _)
checkIfaceMethods_nameOnly(c, schemas, i, sink) ==
    IF i > Len(schemas)
    THEN [ret |-> TRUE, why_not |-> <<>>]
    ELSE
      LET schema == schemas[i]
          self_method == getMethod(c, schema.name)
      IN  IF self_method = NoMethod
          THEN [ret |-> FALSE,
                why_not |-> IF sink
                            THEN <<[msg |-> "missing", name |-> schema.name]>>
                            ELSE <<>>]
          ELSE checkIfaceMethods_nameOnly(c, schemas, i + 1, sink)

\* the loop going on after a mismatch instead of returning
RECURSIVE checkIfaceMethods_noReturn(_, _, _, _)
checkIfaceMethods_noReturn(c, schemas, i, sink) ==
    IF i > Len(schemas)
    THEN [ret |-> TRUE, why_not |-> <<>>]
    ELSE
      LET schema == schemas[i]
          self_method == getMethod(c, schema.name)
          rest == checkIfaceMethods_noReturn(c, schemas, i + 1, sink)
      IN  IF self_method = NoMethod
          THEN [ret |-> FALSE,
                why_not |-> IF sink
                            THEN <<[msg |-> "missing", name |-> schema.name]>>
                                 \o rest.why_not
                            ELSE <<>>]
          ELSE IF ~SchemaSubtype(self_method, schema)
          THEN [ret |-> FALSE,
                why_not |-> IF sink
                            THEN <<[msg |-> "incompatible", name |-> schema.name]>>
                                 \o rest.why_not
                            ELSE <<>>]
          ELSE rest

\* the loop with each "return false" inside the "if (why_not)" block
RECURSIVE checkIfaceMethods_returnInsideSink(_, _, _, _)
checkIfaceMethods_returnInsideSink(c, schemas, i, sink) ==
    IF i > Len(schemas)
    THEN [ret |-> TRUE, why_not |-> <<>>]
    ELSE
      LET schema == schemas[i]
          self_method == getMethod(c, schema.name)
      IN  IF self_method = NoMethod /\ sink
          THEN [ret |-> FALSE,
                why_not |-> <<[msg |-> "missing", name |-> schema.name]>>]
          ELSE IF self_method # NoMethod /\ ~SchemaSubtype(self_method, schema) /\ sink
          THEN [ret |-> FALSE,
                why_not |-> <<[msg |-> "incompatible", name |-> schema.name]>>]
          ELSE checkIfaceMethods_returnInsideSink(c, schemas, i + 1, sink)

\* the loop over iface->methods(), from the i-th required schema on
RECURSIVE checkIfaceMethods(_, _, _, _)
checkIfaceMethods(c, schemas, i, sink) ==
    IF i > Len(schemas)
    THEN [ret |-> TRUE, why_not |-> <<>>]
    ELSE
      LET schema == schemas[i]
          self_method == getMethod(c, schema.name)
      IN  IF self_method = NoMethod
          THEN [ret |-> FALSE,
                why_not |-> IF sink
                            THEN <<[msg |-> "missing", name |-> schema.name]>>
                            ELSE <<>>]
          ELSE IF ~SchemaSubtype(self_method, schema)
          THEN [ret |-> FALSE,
                why_not |-> IF sink
                            THEN <<[msg |-> "incompatible", name |-> schema.name]>>
                            ELSE <<>>]
          ELSE checkIfaceMethods(c, schemas, i + 1, sink)

\* Type::isSubtypeOfExt for a target that is not an interface
Type_isSubtypeOfExt(kind) == kind \in {"Any", "Self"}

\* isSubtypeOfExt without the module interface test
isSubtypeOfExt_noModuleTest(c, kind, iface, sink) ==
    IF kind = "Interface"
    THEN checkIfaceMethods(c, iface.methods, 1, sink)
    ELSE [ret |-> Type_isSubtypeOfExt(kind), why_not |-> <<>>]

isSubtypeOfExt(c, kind, iface, sink) ==
    IF kind = "Interface"
    THEN IF ~c.isModule /\ iface.is_module
         THEN [ret |-> FALSE,
               why_not |-> IF sink
                           THEN <<[msg |-> "notModule", name |-> "-"]>>
                           ELSE <<>>]
         ELSE checkIfaceMethods(c, iface.methods, 1, sink)
    ELSE [ret |-> Type_isSubtypeOfExt(kind), why_not |-> <<>>]

TargetKinds == {"Interface", "Any", "Self", "OtherClass"}

SchemaSeqs == UNION {[1..k -> Schemas] : k \in 0..MaxIfaceMethods}

Interfaces == [is_module : BOOLEAN, methods : SchemaSeqs]

IsSubtypeOf(kind, iface, sink) ==
    LET r == isSubtypeOfExt(Self, kind, iface, sink)
    IN  /\ kind # "Interface" => iface = NoIface
        /\ last' = [NoCall EXCEPT !.op = "isSubtypeOf", !.kind = kind,
                                  !.iface = iface, !.sink = sink,
                                  !.ret = r.ret, !.why_not = r.why_not]
        /\ UNCHANGED <<isModule, attributeNames, attributeTypes, parameterSlots,
                       constantNames, constantValues, methods>>

\* ---------------------------------------------------- ClassType::refine
\* the loop adding the attribute with its current type
RECURSIVE refineAttributes_oldType(_, _, _, _)
refineAttributes_oldType(c, refined_slots, i, ptr) ==
    IF i > Len(c.attributeNames)
    THEN [cls |-> ptr, res |-> "ok"]
    ELSE IF ~TypeSubtype(refined_slots[i], c.attributeTypes[i])
    THEN [cls |-> ptr, res |-> "InvariantViolation"]
    ELSE LET r == addAttribute(ptr, c.attributeNames[i], c.attributeTypes[i], FALSE)
         IN  IF r.res # "ok"
             THEN [cls |-> r.cls, res |-> r.res]
             ELSE refineAttributes_oldType(c, refined_slots, i + 1, r.cls)

\* the loop without the assertion on the replacement type
RECURSIVE refineAttributes_noSubtypeAssert(_, _, _, _)
refineAttributes_noSubtypeAssert(c, refined_slots, i, ptr) ==
    IF i > Len(c.attributeNames)
    THEN [cls |-> ptr, res |-> "ok"]
    ELSE LET r == addAttribute(ptr, c.attributeNames[i], refined_slots[i], FALSE)
         IN  IF r.res # "ok"
             THEN [cls |-> r.cls, res |-> r.res]
             ELSE refineAttributes_noSubtypeAssert(c, refined_slots, i + 1, r.cls)

\* the loop over attributeNames_, from slot i (counted from 1) on
RECURSIVE refineAttributes(_, _, _, _)
refineAttributes(c, refined_slots, i, ptr) ==
    IF i > Len(c.attributeNames)
    THEN [cls |-> ptr, res |-> "ok"]
    ELSE IF ~TypeSubtype(refined_slots[i], c.attributeTypes[i])
    THEN [cls |-> ptr, res |-> "InvariantViolation"]
    ELSE LET r == addAttribute(ptr, c.attributeNames[i], refined_slots[i], FALSE)
         IN  IF r.res # "ok"
             THEN [cls |-> r.cls, res |-> r.res]
             ELSE refineAttributes(c, refined_slots, i + 1, r.cls)

\* the loop over methods(), from the i-th method on
RECURSIVE copyMethods(_, _, _)
copyMethods(c, i, ptr) ==
    IF i > Len(c.methods)
    THEN [cls |-> ptr, res |-> "ok"]
    ELSE LET r == addMethod(ptr, c.methods[i])
         IN  IF r.res # "ok"
             THEN [cls |-> r.cls, res |-> r.res]
             ELSE copyMethods(c, i + 1, r.cls)

\* is_module when ClassType::create is called with two arguments: the
\* default of the declaration; the refined class tracks no parameters
create_is_module_default == FALSE

refine(c, refined_slots) ==
    LET ptr == NewClass(create_is_module_default)
    IN  IF Len(c.attributeNames) # Len(refined_slots)
        THEN [cls |-> ptr, res |-> "InvariantViolation"]
        ELSE LET a == refineAttributes(c, refined_slots, 1, ptr)
             IN  IF a.res # "ok" THEN a ELSE copyMethods(c, 1, a.cls)

RefinedSlotLists ==
    UNION {[1..k -> RefineTypes] :
             k \in {n \in 0..(MaxAttrs + 1) :
                      /\ n >= Len(attributeNames) - 1
                      /\ n <= Len(attributeNames) + 1}}

Refine(refined_slots) ==
    LET r == refine(Self, refined_slots)
    IN  /\ last' = [NoCall EXCEPT !.op = "refine",
                                  !.refined_slots = refined_slots,
                                  !.res = r.res,
                                  !.refined = IF r.res = "ok" THEN r.cls ELSE @]
        /\ UNCHANGED <<isModule, attributeNames, attributeTypes, parameterSlots,
                       constantNames, constantValues, methods>>

\* ---------------------------------------------------- specifications
Init ==
    /\ isModule \in BOOLEAN
    /\ attributeNames = <<>>
    /\ attributeTypes = <<>>
    /\ parameterSlots = <<>>
    /\ constantNames = <<>>
    /\ constantValues = <<>>
    /\ methods = <<>>
    /\ last = NoCall
    /\ slotLog = NoSlots

\* the slot tables
Next ==
    \/ \E name \in Names, type \in Types, is_parameter \in BOOLEAN :
          AddAttribute(name, type, is_parameter) /\ UNCHANGED slotLog
    \/ \E name \in Names : RemoveAttribute(name) /\ UNCHANGED slotLog
    \/ \E name \in Names, value \in Values :
          AddConstant(name, value) /\ UNCHANGED slotLog
    \/ \E name \in Names : RemoveConstant(name) /\ UNCHANGED slotLog

Spec == Init /\ [][Next]_vars

\* the method table and the subtype check
NextMethods ==
    \/ \E method \in Functions : AddMethod(method) /\ UNCHANGED slotLog
    \/ \E kind \in TargetKinds, iface \in Interfaces, sink \in BOOLEAN :
          IsSubtypeOf(kind, iface, sink) /\ UNCHANGED slotLog

SpecMethods == Init /\ [][NextMethods]_vars

\* refinement of a class under construction
NextRefine ==
    \/ \E name \in RefineNames, type \in RefineTypes, is_parameter \in BOOLEAN :
          AddAttribute(name, type, is_parameter) /\ UNCHANGED slotLog
    \/ \E method \in RefineFunctions : AddMethod(method) /\ UNCHANGED slotLog
    \/ \E refined_slots \in RefinedSlotLists :
          Refine(refined_slots) /\ UNCHANGED slotLog

SpecRefine == Init /\ [][NextRefine]_vars

\* the constant table and its accessors
ConstantSlots == 0..(MaxConsts + 1)

NextConstants ==
    \/ \E name \in Names, value \in Values :
          AddConstant(name, value) /\ UNCHANGED slotLog
    \/ \E name \in Names : RemoveConstant(name) /\ UNCHANGED slotLog
    \/ \E name \in Names : FindConstant(name) /\ UNCHANGED slotLog
    \/ \E name \in Names : GetConstant(name) /\ UNCHANGED slotLog
    \/ \E slot \in ConstantSlots : GetConstant_slot(slot) /\ UNCHANGED slotLog

SpecConstants == Init /\ [][NextConstants]_vars

\* attributes added and removed, with the slots that were handed out
SlotTypes == {"Tensor", "Int"}

NextSlots ==
    \/ \E name \in Names, type \in SlotTypes, is_parameter \in BOOLEAN :
          AddAttribute(name, type, is_parameter) /\ LogAddAttribute
    \/ \E name \in Names : RemoveAttribute(name) /\ LogRemoveAttribute

SpecSlots == Init /\ [][NextSlots]_vars

TypeOK == Len(attributeNames) <= MaxAttrs /\ Len(constantNames) <= MaxConsts

\* ====================================================== properties
FieldNames == attributeNames \o constantNames

\* C1: a mutator call that fails leaves the class type exactly as it was:
\* attribute names, attribute types, parameter slots, constant names,
\* constant values and methods are all unchanged.
C1_FailedMutatorLeavesTypeUnmodified ==
    [][last'.res # "ok" => Self' = Self]_vars

\* C2: attributeNames and attributeTypes always have the same length, a
\* module's parameterSlots has that length too, and constantNames and
\* constantValues have the same length.
C2_ParallelSequencesSameLength ==
    /\ Len(attributeNames) = Len(attributeTypes)
    /\ isModule => Len(parameterSlots) = Len(attributeNames)
    /\ Len(constantNames) = Len(constantValues)

\* C3: no name occurs twice in attributeNames followed by constantNames.
C3_FieldNamesUnique ==
    \A i, j \in DOMAIN FieldNames : FieldNames[i] = FieldNames[j] => i = j

C3_Witness ==
    /\ Len(attributeNames) >= 1
    /\ Len(constantNames) >= 1
    /\ last.op \in {"addAttribute", "addConstant"}
    /\ last.res = "NameConflict"

\* C4: every slot flagged in parameterSlots belongs to a module and holds a
\* tensor, optional tensor or none type.
C4_ParameterSlotsHaveParameterTypes ==
    \A i \in DOMAIN parameterSlots :
        parameterSlots[i] =>
            /\ isModule
            /\ i \in DOMAIN attributeTypes
            /\ attributeTypes[i] \in {"Tensor", "OptTensor", "None"}

\* C5: adding a non-parameter attribute of a type other than Any, or a
\* constant, under a name the class does not have succeeds, so an attribute
\* and a constant of distinct new names can be added in either order; adding
\* a constant under an attribute's name, or an attribute under a constant's
\* name, fails with NameConflict.
C5_DistinctNamesCoexistSameNameConflicts ==
    [][LET fresh == last'.name \notin Range(FieldNames)
       IN  /\ (last'.op = "addAttribute" /\ fresh /\ last'.type # "Any"
                 /\ ~last'.is_parameter) => last'.res = "ok"
           /\ (last'.op = "addConstant" /\ fresh) => last'.res = "ok"
           /\ (last'.op = "addConstant" /\ last'.name \in Range(attributeNames))
                 => last'.res = "NameConflict"
           /\ (last'.op = "addAttribute" /\ last'.name \in Range(constantNames))
                 => last'.res = "NameConflict"]_vars

C5_Witness ==
    /\ Len(attributeNames) = 1
    /\ Len(constantNames) = 2
    /\ last.op = "addAttribute"
    /\ last.name \in Range(constantNames)
    /\ last.res = "NameConflict"

\* C6: no two methods have the same name; addMethod under a name already
\* present fails with NameConflict and leaves methods unchanged, and under a
\* new name appends the method as the last entry.
C6_MethodNamesUnique ==
    /\ [](\A i, j \in DOMAIN methods : methods[i].name = methods[j].name => i = j)
    /\ [][last'.op = "addMethod" =>
            IF \E i \in DOMAIN methods : methods[i].name = last'.method.name
            THEN last'.res = "NameConflict" /\ methods' = methods
            ELSE last'.res = "ok" /\ methods' = Append(methods, last'.method)]_vars

C6_Witness ==
    /\ Len(methods) = 2
    /\ last.op = "addMethod"
    /\ last.res = "NameConflict"
    /\ last.method.name = methods[2].name
    /\ last.method # methods[2]

\* a required schema is satisfied by some method of the class
Satisfied(ms, schema) ==
    \E j \in DOMAIN ms :
        ms[j].name = schema.name /\ TypeSubtype(ms[j].ret, schema.ret)

RequiredNames(iface) == {iface.methods[i].name : i \in DOMAIN iface.methods}

IsRequired(m) == m.name \in RequiredNames(last.iface)

\* C7: against an interface the answer is true exactly when the module rule
\* passes and every required schema has a same-named method with a subtype
\* signature; methods the interface does not require do not change the answer.
C7_InterfaceSubtypeIffAllRequiredSatisfied ==
    (last.op = "isSubtypeOf" /\ last.kind = "Interface") =>
        /\ last.ret <=>
             /\ isModule \/ ~last.iface.is_module
             /\ \A i \in DOMAIN last.iface.methods :
                    Satisfied(methods, last.iface.methods[i])
        /\ last.ret =
             isSubtypeOfExt([Self EXCEPT !.methods = SelectSeq(methods, IsRequired)],
                            "Interface", last.iface, last.sink).ret

C7_Witness ==
    /\ last.op = "isSubtypeOf"
    /\ last.kind = "Interface"
    /\ last.ret
    /\ Len(last.iface.methods) = 1
    /\ Len(methods) = 2
    /\ methods[1].name \notin RequiredNames(last.iface)
    /\ methods[2].ret # last.iface.methods[1].ret

\* C8: a class that is not a module is never a subtype of a module interface.
C8_NonModuleNeverSubtypeOfModuleInterface ==
    (last.op = "isSubtypeOf" /\ last.kind = "Interface"
        /\ ~isModule /\ last.iface.is_module) => ~last.ret

C8_Witness ==
    /\ last.op = "isSubtypeOf"
    /\ last.kind = "Interface"
    /\ ~isModule
    /\ last.iface.is_module
    /\ Len(last.iface.methods) = 2
    /\ \A i \in DOMAIN last.iface.methods : Satisfied(methods, last.iface.methods[i])

\* the required schemas the class does not satisfy, by position
Unsatisfied(iface) ==
    {i \in DOMAIN iface.methods : ~Satisfied(methods, iface.methods[i])}

Mentioned(why_not) == {why_not[k].name : k \in DOMAIN why_not}

FailedWithSink ==
    /\ last.op = "isSubtypeOf"
    /\ last.kind = "Interface"
    /\ last.sink
    /\ ~last.ret

C10_RefineKeepsNamesAndMethodsTakesReplacements ==
    (/\ last.op = "refine"
     /\ Len(last.refined_slots) = Len(attributeNames)
     /\ \A i \in DOMAIN attributeTypes :
            TypeSubtype(last.refined_slots[i], attributeTypes[i])) =>
        /\ last.res = "ok"
        /\ Len(last.refined.attributeNames) = Len(attributeNames)
        /\ last.refined.attributeNames = attributeNames
        /\ last.refined.attributeTypes = last.refined_slots
        /\ last.refined.methods = methods

C10_Witness ==
    /\ last.op = "refine"
    /\ last.res = "ok"
    /\ Len(attributeNames) = 2
    /\ Len(methods) = 2
    /\ attributeTypes[1] = "OptTensor"
    /\ last.refined_slots[1] = "Tensor"
    /\ last.refined.attributeTypes[1] = "Tensor"

\* the replacement list of the last refine call is not acceptable
RefineInvalid ==
    \/ Len(last.refined_slots) # Len(attributeNames)
    \/ \E i \in DOMAIN attributeTypes :
          ~TypeSubtype(last.refined_slots[i], attributeTypes[i])

\* C11: refine fails with an invariant violation when the replacement list
\* has another length than the attributes or holds a replacement that is not
\* a subtype of the attribute type at its slot; no class is returned, and a
\* refine call never changes the receiver.
C11_RefineRejectsBadReplacements ==
    /\ []((last.op = "refine" /\ RefineInvalid) =>
            last.res = "InvariantViolation")
    /\ [][last'.op = "refine" => Self' = Self]_vars

C11_Witness ==
    /\ last.op = "refine"
    /\ last.res = "InvariantViolation"
    /\ Len(attributeNames) = 2
    /\ Len(methods) = 1
    /\ Len(last.refined_slots) = 2
    /\ TypeSubtype(last.refined_slots[1], attributeTypes[1])
    /\ ~TypeSubtype(last.refined_slots[2], attributeTypes[2])

\* t is s without the entry at slot k (counted from 0): entries below k stay,
\* entries above k move down by one
ShiftedDown(s, t, k) ==
    /\ Len(t) = Len(s) - 1
    /\ \A j \in 1..Len(t) : t[j] = IF j <= k THEN s[j] ELSE s[j + 1]

\* C12: a successful removeAttribute of the attribute at slot k keeps the
\* entries below k, moves every entry above k down by one, does so alike in
\* attributeNames, attributeTypes and a module's parameterSlots, and leaves
\* constants and methods alone; removeConstant does the same to
\* constantNames and constantValues.
C12_RemoveShiftsLaterSlotsDown ==
    [][/\ (last'.op = "removeAttribute" /\ last'.res = "ok") =>
            /\ attributeNames[last'.slot + 1] = last'.name
            /\ ShiftedDown(attributeNames, attributeNames', last'.slot)
            /\ ShiftedDown(attributeTypes, attributeTypes', last'.slot)
            /\ isModule => ShiftedDown(parameterSlots, parameterSlots', last'.slot)
            /\ UNCHANGED <<constantNames, constantValues, methods>>
       /\ (last'.op = "removeConstant" /\ last'.res = "ok") =>
            /\ constantNames[last'.slot + 1] = last'.name
            /\ ShiftedDown(constantNames, constantNames', last'.slot)
            /\ ShiftedDown(constantValues, constantValues', last'.slot)
            /\ UNCHANGED <<attributeNames, attributeTypes, parameterSlots,
                           methods>>]_vars

\* C13: a successful addAttribute returns the number of attributes there
\* were before the call and stores the name and the type at that slot; a
\* successful addConstant returns the number of constants there were before
\* the call, and getConstant of that slot then returns the value added.
C13_AddReturnsPriorLengthAsSlot ==
    [][/\ (last'.op = "addAttribute" /\ last'.res = "ok") =>
            /\ last'.slot = Len(attributeNames)
            /\ Len(attributeNames') = last'.slot + 1
            /\ attributeNames'[last'.slot + 1] = last'.name
            /\ attributeTypes'[last'.slot + 1] = last'.type
       /\ (last'.op = "addConstant" /\ last'.res = "ok") =>
            /\ last'.slot = Len(constantNames)
            /\ getConstant_slot(Self', last'.slot) =
                  [res |-> "ok", value |-> last'.value]]_vars

C13_Witness ==
    /\ last.op = "addAttribute"
    /\ last.res = "ok"
    /\ last.slot = 1
    /\ attributeNames[2] = last.name
    /\ attributeTypes[2] = last.type
    /\ attributeTypes[1] # last.type
    /\ Len(constantNames) >= 1

\* the values stored under the name n in the constant table (ns, vs)
ValuesUnder(ns, vs, n) == {vs[i] : i \in {j \in DOMAIN ns : ns[j] = n}}

Accessors == {"findConstant", "getConstant", "getConstant(slot)"}

\* what the accessors answer in the current state
C14_AccessorsAnswer ==
    /\ \A n \in Names :
          IF n \in Range(constantNames)
          THEN \E v \in Values :
                  /\ ValuesUnder(constantNames, constantValues, n) = {v}
                  /\ findConstant(Self, n) =
                        [res |-> "ok", has_value |-> TRUE, value |-> v]
                  /\ getConstant(Self, n) = [res |-> "ok", value |-> v]
          ELSE /\ findConstant(Self, n) =
                     [res |-> "ok", has_value |-> FALSE, value |-> "-"]
               /\ getConstant(Self, n).res = "NotFound"
    /\ \A slot \in ConstantSlots :
          slot >= Len(constantNames) =>
              getConstant_slot(Self, slot).res = "IndexOutOfRange"
    /\ last.op = "findConstant" =>
          /\ last.res = "ok"
          /\ last.ret <=> last.name \in Range(constantNames)
          /\ last.ret =>
                ValuesUnder(constantNames, constantValues, last.name) = {last.value}
    /\ last.op = "getConstant" =>
          IF last.name \in Range(constantNames)
          THEN /\ last.res = "ok"
               /\ ValuesUnder(constantNames, constantValues, last.name) = {last.value}
          ELSE last.res = "NotFound"
    /\ (last.op = "getConstant(slot)" /\ last.slot >= Len(constantNames)) =>
          last.res = "IndexOutOfRange"

\* the value stored under a name is the one last added and not since removed
C14_ValueTracksAddAndRemove ==
    /\ (last'.op = "addConstant" /\ last'.res = "ok") =>
          ValuesUnder(constantNames', constantValues', last'.name) = {last'.value}
    /\ (last'.op = "removeConstant" /\ last'.res = "ok") =>
          ValuesUnder(constantNames', constantValues', last'.name) = {}
    /\ \A n \in Names :
          ~(last'.op \in {"addConstant", "removeConstant"}
              /\ last'.res = "ok" /\ last'.name = n) =>
              ValuesUnder(constantNames', constantValues', n) =
                  ValuesUnder(constantNames, constantValues, n)
    /\ last'.op \in Accessors => Self' = Self

\* C14: for a current constant name getConstant and findConstant return the
\* value most recently added under it and not since removed; for any other
\* name findConstant returns nothing without failing and getConstant fails
\* with NotFound; getConstant of a slot not below the constant count fails
\* with IndexOutOfRange; no accessor changes the class.
C14_ConstantAccessors ==
    /\ []C14_AccessorsAnswer
    /\ [][C14_ValueTracksAddAndRemove]_vars

C14_Witness ==
    /\ last.op = "getConstant"
    /\ last.res = "ok"
    /\ Len(constantNames) = 2
    /\ last.name = constantNames[2]
    /\ last.value = constantValues[2]
    /\ constantValues[1] # constantValues[2]

\* C15: the class returned by a successful refine is a subtype of every
\* interface, module interface or not, that the receiver is a subtype of.
C15_RefinePreservesInterfaceConformance ==
    (last.op = "refine" /\ last.res = "ok") =>
        \A iface \in Interfaces :
            isSubtypeOfExt(Self, "Interface", iface, FALSE).ret =>
                isSubtypeOfExt(last.refined, "Interface", iface, FALSE).ret

\* C16: isSubtypeOf leaves the attributes, constants and methods of the
\* receiver unchanged, two calls in a row with the same target return the
\* same boolean, and the boolean does not depend on whether a diagnostic
\* sink is supplied.
C16_SubtypeCheckIsPureAndSinkIndependent ==
    /\ [](last.op = "isSubtypeOf" =>
            last.ret = isSubtypeOfExt(Self, last.kind, last.iface, ~last.sink).ret)
    /\ [][last'.op = "isSubtypeOf" => Self' = Self]_vars
    /\ [][(/\ last.op = "isSubtypeOf"
           /\ last'.op = "isSubtypeOf"
           /\ last'.kind = last.kind
           /\ last'.iface = last.iface) => last'.ret = last.ret]_vars

C16_Witness ==
    /\ last.op = "isSubtypeOf"
    /\ last.kind = "Interface"
    /\ ~last.sink
    /\ ~last.ret
    /\ last.why_not = <<>>
    /\ Len(methods) = 2
    /\ Unsatisfied(last.iface) = {2}

\* C17 as stated: the slot returned by an addAttribute call is never a slot
\* that was returned for an attribute that has since been removed.
C17_SlotNeverReusedAfterRemoval ==
    (last.op = "addAttribute" /\ last.res = "ok") =>
        last.slot \notin slotLog.retired

\* C17 amended: the slot returned by a successful addAttribute is the new
\* attribute's position at that moment, which no other attribute still
\* present holds; it can be a slot returned for an attribute removed since.
C17_SlotIsCurrentPositionOfNewAttribute ==
    (last.op = "addAttribute" /\ last.res = "ok") =>
        /\ last.slot + 1 \in DOMAIN attributeNames
        /\ \A i \in DOMAIN attributeNames :
              i - 1 = last.slot <=> attributeNames[i] = last.name

C17_Witness ==
    /\ last.op = "addAttribute"
    /\ last.res = "ok"
    /\ last.slot \in slotLog.retired
    /\ last.slot = 1
    /\ Len(attributeNames) = 2
    /\ slotLog.issued[attributeNames[1]] = 0
====
